---- MODULE Spec2Model ----
(***************************************************************************)
(* A model of the actor mesh of trustmaster/actor-mesh-demo: the message   *)
(* envelope and its route (models/message.py), the actor runtime           *)
(* (actors/base.py), the Decision Router, the Escalation Router and the    *)
(* Response Aggregator, connected by the broker's durable work queue.      *)
(*                                                                         *)
(* One handler run (BaseActor._process_message) is one action.  The run is *)
(* computed by operators that follow the code statement by statement and   *)
(* return the in-memory message object together with the ordered list of   *)
(* the calls the run made (process, publish, ack, nak); the action then    *)
(* applies those calls to the broker.                                      *)
(***************************************************************************)
EXTENDS Integers, Sequences, FiniteSets, TLC

VARIABLES
    broker,     \* deliverable copies held by the stream: set of [subj, msg]
    replies,    \* what was published on core subjects: set of [subj, mid]
    seeded,     \* who created the message: "none", "gateway" or "harness"
    last,       \* the last handler run: its inputs, its calls, its message object
    faults,     \* handler runs so far in which a broker publish raised
    rt,         \* Route under test: [steps, current_step]
    calls,      \* advance() calls made on rt
    trues,      \* how many of them returned True
    ret,        \* what the last advance() call returned: "none", "True", "False"
    einput,     \* two messages handed to the escalation classification
    ekind,      \* what the classification returned for each: "none" before the call
    queue_position, \* EscalationRouter.queue_position
    pending_requests,   \* APIGateway.pending_requests: message_ids with a handle
    future,     \* the handle of each chat request: [state, value]
    gpc,        \* where each chat request is in chat_endpoint
    gresult,    \* what each chat request returned: [status, response]
    arrived,    \* the replies _handle_response_message has handled, in order
    active_connections,     \* WebSocketManager.active_connections: connection ids
    session_connections,    \* WebSocketManager.session_connections: [session, conn]
    ws_pending, \* WebSocketManager.pending_requests: set of [mid, conn]
    ws_made,    \* the message_ids _handle_chat_message has made
    ws_seen,    \* the envelopes the manager's subscription has handled
    pushed,     \* what was sent to the WebSocket clients: set of [conn, type, mid]
    wloop,      \* each connection's endpoint loop: "none", "open" or "closed"
    wnc,        \* the manager's broker connection: "open", "closing" or "closed"
    _running,   \* BaseActor._running of the runtime that is stopped
    _tasks,     \* BaseActor._tasks: the per-message units not yet discarded
    unit,       \* each per-message unit: "none", "running", "cancelling", "done"
    awaited,    \* the units stop() handed to asyncio.gather
    spc,        \* where stop() is: "idle", "waiting" or "returned"
    nc          \* the runtime's broker connection: "open" or "closed"

vars == <<broker, replies, seeded, last, faults, rt, calls, trues, ret,
          einput, ekind, queue_position,
          pending_requests, future, gpc, gresult, arrived,
          active_connections, session_connections, ws_pending, ws_made, ws_seen,
          pushed, wloop, wnc, _running, _tasks, unit, awaited, spc, nc>>
meshVars == <<broker, replies, seeded, last, faults>>
routeVars == <<rt, calls, trues, ret>>
classVars == <<einput, ekind, queue_position>>
gatewayVars == <<pending_requests, future, gpc, gresult, arrived>>
wsVars == <<active_connections, session_connections, ws_pending, ws_made, ws_seen,
            pushed, wloop, wnc>>
stopVars == <<_running, _tasks, unit, awaited, spc, nc>>

\* what the actions of one part of the model leave alone
notMesh  == <<routeVars, classVars, gatewayVars, wsVars, stopVars>>
notRoute == <<meshVars, classVars, gatewayVars, wsVars, stopVars>>
notClass == <<meshVars, routeVars, gatewayVars, wsVars, stopVars>>
notGateway == <<meshVars, routeVars, classVars, wsVars, stopVars>>
notWs == <<routeVars, classVars, gatewayVars, stopVars>>
notStop == <<meshVars, routeVars, classVars, gatewayVars, wsVars>>

(***************************************************************************)
(* Bounds of the model.                                                    *)
(***************************************************************************)
MaxSteps == 4       \* longest Route drawn for the Route specification
MaxCalls == 6       \* advance() calls made on one Route
MaxFaults == 2      \* handler runs in which the broker makes a publish raise
MaxQueue == 2       \* human handoffs served between two classifications
MaxReplies == 3     \* replies that arrive on the gateway reply subject
MaxUnits == 4       \* deliveries handed to the runtime that is stopped

(***************************************************************************)
(* Program constants.                                                      *)
(***************************************************************************)
max_retries      == 3
max_auto_retries == 3

None == "None"

Actors == {"sentiment_analyzer", "intent_analyzer", "context_retriever",
           "decision_router", "response_generator", "guardrail_validator",
           "execution_coordinator", "escalation_router", "response_aggregator"}

ProcessorActors == {"sentiment_analyzer", "intent_analyzer", "context_retriever",
                    "response_generator", "guardrail_validator",
                    "execution_coordinator"}

FULL_PROCESSING_PIPELINE ==
    <<"sentiment_analyzer", "intent_analyzer", "context_retriever",
      "decision_router", "response_generator", "guardrail_validator",
      "response_aggregator">>

\* f"ecommerce.support.{name}", as the tuple of its tokens
Subject(name) == <<"ecommerce", "support", name>>
default_response_subject == <<"ecommerce", "support", "gateway", "response">>
error_delivery_subject   == <<"ecommerce", "support", "error", "delivery">>

(***************************************************************************)
(* Route (models/message.py).  current_step is 0-based as in the code;     *)
(* steps[i] of the code is steps[i+1] here.                                *)
(***************************************************************************)
get_current_actor(r) ==
    IF r.current_step < Len(r.steps) THEN r.steps[r.current_step + 1] ELSE None

get_next_actor(r) ==
    IF r.current_step + 1 < Len(r.steps) THEN r.steps[r.current_step + 2] ELSE None

\* the value advance() returns
advance_result(r) == r.current_step + 1 < Len(r.steps)

\* the route advance() leaves behind
\* faulty variants of advance, for checking that the properties notice them
advance_stays(r) == r
advance_back(r) == [r EXCEPT !.current_step = IF @ > 0 THEN @ - 1 ELSE 0]
advance_past_end(r) == [r EXCEPT !.current_step = @ + 1]

advance(r) ==
    IF r.current_step + 1 < Len(r.steps)
    THEN [r EXCEPT !.current_step = @ + 1]
    ELSE r

is_complete(r) == r.current_step >= Len(r.steps) - 1

(***************************************************************************)
(* Message, MessagePayload (models/message.py).  An enrichment slot that   *)
(* is None reads as the defaults the routers' `x or {}` / `.get(k, d)`     *)
(* lookups give: present = FALSE and every field at its default.           *)
(* Numbers with one decimal are kept in tenths (0.8 is 8).                 *)
(***************************************************************************)
NoSentiment == [present |-> FALSE, urgency |-> None, sentiment |-> None, intensity |-> 0]
NoIntent    == [present |-> FALSE, intent |-> "", confidence |-> 10]
NoContext   == [present |-> FALSE, tier |-> "", orders |-> 0,
                escalation |-> FALSE, error_recovery |-> FALSE]
\* corrected: the result carries a corrected_response
NoGuardrail == [present |-> FALSE, passed |-> TRUE, approved |-> TRUE, corrected |-> FALSE]
NoError     == [present |-> FALSE, type |-> None, actor |-> None]

\* Message(...) with an empty payload: __init__ sets retry_count when absent
Message(steps, error_handler, retry_count, api_request, keyword) ==
    [message_id       |-> "m1",
     route            |-> [steps |-> steps, current_step |-> 0,
                           error_handler |-> error_handler],
     customer_keyword |-> keyword,      \* customer_message holds an escalation keyword
     sentiment        |-> NoSentiment,
     intent           |-> NoIntent,
     context          |-> NoContext,
     response         |-> None,
     guardrail_check  |-> NoGuardrail,
     execution_result |-> FALSE,
     error            |-> NoError,
     recovery_log     |-> 0,            \* len(recovery_log)
     retry_count      |-> retry_count,
     api_request      |-> api_request,
     fallback_used    |-> FALSE,
     emergency_fallback |-> FALSE,
     malformed        |-> FALSE]        \* the stored bytes do not deserialize

\* Message.add_error
add_error(m, error_type, actor) ==
    [m EXCEPT !.error = [present |-> TRUE, type |-> error_type, actor |-> actor],
              !.recovery_log = @ + 1]

\* Message.increment_retry
\* a faulty variant of increment_retry
increment_retry_twice(m) == [m EXCEPT !.retry_count = @ + 2]

increment_retry(m) == [m EXCEPT !.retry_count = @ + 1]

(***************************************************************************)
(* The calls of one handler run, in order.  A run is [obj, ev, raised,     *)
(* att]: the message object, the calls made so far, whether the last step  *)
(* raised, and how many broker publishes were attempted.  The input `pub`  *)
(* of a run is the set of publish attempts (1st, 2nd, ...) at which the    *)
(* broker call raises; {} is a broker whose calls all succeed.             *)
(***************************************************************************)
Ev(op, subj, m, mid) == [op |-> op, subj |-> subj, msg |-> m, mid |-> mid]

\* F(x), with x evaluated once: a local of the handler that is assigned once
\* and read several times
Bind(x, F(_)) == CHOOSE y \in {F(v) : v \in {x}} : TRUE

Start(m) == [obj |-> m, ev |-> <<>>, raised |-> FALSE, att |-> 0]

With(r, m) == [r EXCEPT !.obj = m]

Caught(r) == [r EXCEPT !.raised = FALSE]

\* js.publish / nc.publish of a body carrying message id `mid`
PublishAs(r, subj, mid, pub) ==
    Bind(r, LAMBDA x :
        IF x.raised THEN x
        ELSE IF (x.att + 1) \in pub
             THEN [x EXCEPT !.att = @ + 1, !.raised = TRUE]
             ELSE [x EXCEPT !.att = @ + 1,
                            !.ev = Append(@, Ev("publish", subj, x.obj, mid))])

\* js.publish(subject, json.dumps(message.dict()).encode()); also send_message
Publish(r, subj, pub) == Bind(r, LAMBDA x : PublishAs(x, subj, x.obj.message_id, pub))

Call(r, op) ==
    Bind(r, LAMBDA x :
        IF x.raised THEN x
        ELSE [x EXCEPT !.ev = Append(@, Ev(op, <<>>, x.obj, x.obj.message_id))])

PublishesOf(ev) == {i \in 1..Len(ev) : ev[i].op = "publish"}
PublishesTo(ev, subj) == {i \in PublishesOf(ev) : ev[i].subj = subj}
\* a broker that keeps the delivered copy deliverable whatever the run answered
Acked_never(ev) == FALSE

\* msg.ack() was called in the run
Acked(ev)  == \E i \in 1..Len(ev) : ev[i].op = "ack"
Naked(ev)  == \E i \in 1..Len(ev) : ev[i].op = "nak"
Processed(ev) == \E i \in 1..Len(ev) : ev[i].op = "process"

(***************************************************************************)
(* BaseActor (actors/base.py)                                              *)
(***************************************************************************)
\* BaseActor._route_to_next: the default route-advance of a processor stage
_route_to_next(r, pub) ==
    Bind(r, LAMBDA x :
        IF advance_result(x.obj.route)
        THEN LET m == [x.obj EXCEPT !.route = advance(x.obj.route)]
                 next_actor == get_current_actor(m.route)
             IN  IF next_actor # None
                 THEN Publish(With(x, m), Subject(next_actor), pub)
                 ELSE With(x, m)
        ELSE x)

\* BaseActor._route_to_error_handler
_route_to_error_handler(r, name, error_type, pub) ==
    Bind(r, LAMBDA x :
        IF x.obj.route.error_handler # None
        THEN Publish(With(x, add_error(x.obj, error_type, name)),
                     Subject(x.obj.route.error_handler), pub)
        ELSE x)

\* a runtime that acknowledges what it cannot deserialize
_handle_error_ack(r) == Call(r, "ack")

\* BaseActor._handle_error without a message object: "can't recover"
_handle_error_no_object(r) == Call(r, "nak")

\* a failure path that acknowledges whatever the retry count
_handle_error_acks(r, name, error_type, pub) == Call(Caught(r), "ack")

\* BaseActor._handle_error, for a message object that exists
_handle_error(r, name, error_type, pub) ==
    Bind(Caught(r), LAMBDA r0 :
        LET retry_count == r0.obj.retry_count
        IN  IF retry_count >= max_retries
            THEN Bind(_route_to_error_handler(r0, name, error_type, pub), LAMBDA routed :
                     IF routed.raised
                     THEN Call(Caught(routed), "nak")    \* except Exception: nak
                     ELSE Call(routed, "ack"))           \* don't reprocess
            ELSE Call(With(r0, add_error(increment_retry(r0.obj), error_type, name)), "nak"))

(***************************************************************************)
(* Python list operations used on route.steps (indices 0-based)            *)
(***************************************************************************)
Min(a, b) == IF a < b THEN a ELSE b

\* name in steps
In(name, steps) == \E i \in 1..Len(steps) : steps[i] = name

\* steps[i0:]
From(steps, i0) == SubSeq(steps, Min(i0, Len(steps)) + 1, Len(steps))

\* steps[:n]
Take(steps, n) == SubSeq(steps, 1, Min(n, Len(steps)))

\* steps.insert(i0, name)
Insert(steps, i0, name) == Take(steps, i0) \o <<name>> \o From(steps, i0)

\* steps.index(name), for a name that is in steps
IndexOf(steps, name) == (CHOOSE i \in 1..Len(steps) :
                            steps[i] = name /\ \A j \in 1..(i - 1) : steps[j] # name) - 1

(***************************************************************************)
(* DecisionRouter (actors/decision_router.py)                              *)
(***************************************************************************)
_should_escalate_immediately(sentiment, intent, context) ==
    \/ sentiment.urgency = "critical"
    \/ sentiment.sentiment = "negative" /\ sentiment.intensity > 8
    \/ intent.intent \in {"legal_threat", "formal_complaint", "regulatory_complaint"}
    \/ context.tier = "VIP" /\ sentiment.urgency \in {"high", "critical"}

_needs_priority_processing(sentiment, intent) ==
    \/ sentiment.urgency = "high"
    \/ intent.intent \in {"billing_inquiry", "refund_request", "payment_issue"}

_needs_action_execution(intent, context) ==
    intent.intent \in {"refund_request", "order_modification", "shipping_change",
                       "billing_update", "account_update", "order_cancellation"}

_has_low_confidence(intent) == intent.confidence < 6

_is_complex_query(intent, context) ==
    \/ context.orders > 5
    \/ intent.intent \in {"technical_support", "product_compatibility", "bulk_order"}

_insert_priority_steps(route) ==
    LET current_pos == route.current_step
        next_steps  == From(route.steps, current_pos + 1)
    IN  IF ~In("response_generator", Take(next_steps, 2))
        THEN [route EXCEPT !.steps = Insert(@, current_pos + 1, "response_generator")]
        ELSE route

\* a Decision Router that leaves the route as it is when an action is needed
_ensure_nothing(route) == route

_ensure_execution_coordinator(route) ==
    IF ~In("execution_coordinator", route.steps)
    THEN IF In("response_generator", route.steps)
         THEN [route EXCEPT !.steps =
                   Insert(@, IndexOf(route.steps, "response_generator"), "execution_coordinator")]
         ELSE [route EXCEPT !.steps = Append(@, "execution_coordinator")]
    ELSE route

_add_human_review(route) ==
    IF ~In("escalation_router", route.steps)
    THEN IF In("response_aggregator", route.steps)
         THEN [route EXCEPT !.steps =
                   Insert(@, IndexOf(route.steps, "response_aggregator"), "escalation_router")]
         ELSE [route EXCEPT !.steps = Append(@, "escalation_router")]
    ELSE route

_add_enhanced_processing(route) ==
    IF route.current_step < Len(route.steps)
       /\ ~In("context_retriever", From(route.steps, route.current_step + 1))
    THEN [route EXCEPT !.steps = Insert(@, route.current_step + 1, "context_retriever")]
    ELSE route

\* DecisionRouter._make_routing_decisions: the route it leaves in the message
_make_routing_decisions(m) ==
    LET sentiment == m.sentiment
        intent    == m.intent
        context   == m.context
    IN  IF _should_escalate_immediately(sentiment, intent, context)
        THEN [m.route EXCEPT !.steps = <<"escalation_router", "response_aggregator">>,
                             !.current_step = 0]
        ELSE LET r2 == IF _needs_priority_processing(sentiment, intent)
                       THEN _insert_priority_steps(m.route) ELSE m.route
                 r3 == IF _needs_action_execution(intent, context)
                       THEN _ensure_execution_coordinator(r2) ELSE r2
                 r4 == IF _has_low_confidence(intent)
                       THEN _add_human_review(r3) ELSE r3
             IN  IF _is_complex_query(intent, context)
                 THEN _add_enhanced_processing(r4) ELSE r4

\* a faulty variant of _send_to_next_actor, which steps back instead of forward
Decision_send_to_previous_actor(r, pub) ==
    Bind(r, LAMBDA x :
        LET m == [x.obj EXCEPT !.route = advance_back(x.obj.route)]
        IN  Publish(With(x, m), Subject(get_current_actor(m.route)), pub))

\* DecisionRouter._send_to_next_actor
Decision_send_to_next_actor(r, pub) ==
    Bind(r, LAMBDA x :
        IF ~advance_result(x.obj.route)
        THEN x                                  \* "reached end of route": nothing sent
        ELSE LET m == [x.obj EXCEPT !.route = advance(x.obj.route)]
                 next_actor == get_current_actor(m.route)
             IN  IF next_actor # None
                 THEN Publish(With(x, m), Subject(next_actor), pub)
                 ELSE With(x, m))

\* DecisionRouter._handle_routing_error
_handle_routing_error(r, pub) ==
    Bind(r, LAMBDA x :
        LET m == add_error(x.obj, "routing_error", "decision_router")
        IN  IF m.route.error_handler # None
            THEN Publish(With(x, m), Subject(m.route.error_handler), pub)
            ELSE Publish(With(x, m), Subject("escalation_router"), pub))

\* DecisionRouter.route_message
Decision_route_message(r, pub) ==
    Bind(r, LAMBDA x :
        LET decided == With(x, [x.obj EXCEPT !.route = _make_routing_decisions(x.obj)])
        IN  Bind(Decision_send_to_next_actor(decided, pub), LAMBDA sent :
                IF sent.raised
                THEN _handle_routing_error(Caught(sent), pub)
                ELSE sent))

(***************************************************************************)
(* EscalationRouter (actors/escalation_router.py)                          *)
(***************************************************************************)
confidence_threshold == 5       \* 0.5, in tenths

\* any(keyword in customer_message.lower() for keyword in escalation_keywords)
_is_escalation_request(m) == m.customer_keyword

_needs_human_intervention(m) ==
    \/ m.sentiment.sentiment = "negative" /\ m.sentiment.intensity > 7
    \/ m.context.tier = "VIP"
    \/ m.intent.intent \in {"legal_threat", "formal_complaint"}

\* a faulty variant of the classification, which looks at the response
escalation_by_response(m) == IF m.response = None THEN "retry" ELSE "no_escalation"

\* a classification that looks at the handoff triggers before the error
escalation_triggers_first(m) ==
    IF \/ m.intent.confidence < confidence_threshold
       \/ _is_escalation_request(m)
       \/ _needs_human_intervention(m)
    THEN "human_handoff"
    ELSE IF m.error.present
    THEN IF m.retry_count < max_auto_retries THEN "retry" ELSE "error_recovery"
    ELSE IF ~m.guardrail_check.passed THEN "fallback_response"
    ELSE "no_escalation"

_determine_escalation_type(m) ==
    IF m.error.present
    THEN IF m.retry_count < max_auto_retries THEN "retry" ELSE "error_recovery"
    ELSE IF m.intent.confidence < confidence_threshold THEN "human_handoff"
    ELSE IF _is_escalation_request(m) THEN "human_handoff"
    ELSE IF _needs_human_intervention(m) THEN "human_handoff"
    ELSE IF ~m.guardrail_check.passed THEN "fallback_response"
    ELSE "no_escalation"

\* a faulty variant of _find_failed_step, which never finds the step
_find_no_failed_step(m) == None

\* the step named by the error record, when it is in the route
_find_failed_step(m) ==
    IF m.error.present /\ m.error.actor # None /\ In(m.error.actor, m.route.steps)
    THEN m.error.actor ELSE None

_send_to_specific_actor(r, actor_name, pub) == Publish(r, Subject(actor_name), pub)

_send_to_response_aggregator(r, pub) == Publish(r, Subject("response_aggregator"), pub)

\* EscalationRouter._send_to_next_actor
Escalation_send_to_next_actor(r, pub) ==
    Bind(r, LAMBDA x :
        IF ~advance_result(x.obj.route)
        THEN _send_to_response_aggregator(x, pub)
        ELSE LET m == [x.obj EXCEPT !.route = advance(x.obj.route)]
                 next_actor == get_current_actor(m.route)
             IN  IF next_actor # None
                 THEN _send_to_specific_actor(With(x, m), next_actor, pub)
                 ELSE _send_to_response_aggregator(With(x, m), pub))

_continue_normal_flow(r, pub) == Escalation_send_to_next_actor(r, pub)

_handle_retry(r, pub) ==
    Bind(r, LAMBDA x :
        LET m1 == [x.obj EXCEPT !.retry_count = @ + 1]
            failed_step == _find_failed_step(m1)
        IN  IF failed_step # None
            THEN LET m2 == [m1 EXCEPT
                               !.route.current_step = IndexOf(m1.route.steps, failed_step),
                               !.error = NoError]
                 IN  _send_to_specific_actor(With(x, m2), failed_step, pub)
            ELSE Escalation_send_to_next_actor(With(x, m1), pub))

_handle_human_handoff(r, pub) ==
    Bind(r, LAMBDA x :
        LET m == [x.obj EXCEPT !.context.present = TRUE,
                               !.context.escalation = TRUE,
                               !.response = "interim"]
        IN  _send_to_response_aggregator(With(x, m), pub))

\* a fallback that goes on to the next step of the route
_handle_fallback_next(r, pub) == Escalation_send_to_next_actor(r, pub)

_handle_fallback_response(r, pub) ==
    Bind(r, LAMBDA x :
        LET m == [x.obj EXCEPT !.response = "fallback", !.fallback_used = TRUE]
        IN  _send_to_response_aggregator(With(x, m), pub))

_handle_error_recovery(r, pub) ==
    Bind(r, LAMBDA x :
        IF x.obj.error.type \in {"llm_error", "api_timeout"}
        THEN _handle_fallback_response(x, pub)
        ELSE IF x.obj.error.type = "context_error"
        THEN Escalation_send_to_next_actor(
                 With(x, [x.obj EXCEPT !.context = [NoContext EXCEPT !.present = TRUE,
                                                                     !.error_recovery = TRUE]]),
                 pub)
        ELSE _handle_fallback_response(x, pub))

_handle_critical_error(r, pub) ==
    Bind(r, LAMBDA x :
        LET m == [add_error(x.obj, "critical_escalation_error", "escalation_router")
                     EXCEPT !.response = "emergency", !.emergency_fallback = TRUE]
        IN  _send_to_response_aggregator(With(x, m), pub))

\* EscalationRouter.route_message
Escalation_route_message(r, pub) ==
    Bind(r, LAMBDA x :
        LET escalation_type == _determine_escalation_type(x.obj)
        IN  Bind(CASE escalation_type = "no_escalation"     -> _continue_normal_flow(x, pub)
                   [] escalation_type = "retry"             -> _handle_retry(x, pub)
                   [] escalation_type = "human_handoff"     -> _handle_human_handoff(x, pub)
                   [] escalation_type = "error_recovery"    -> _handle_error_recovery(x, pub)
                   [] escalation_type = "fallback_response" -> _handle_fallback_response(x, pub),
                 LAMBDA handled :
                     IF handled.raised
                     THEN _handle_critical_error(Caught(handled), pub)
                     ELSE handled))

(***************************************************************************)
(* ResponseAggregator (actors/response_aggregator.py)                      *)
(***************************************************************************)
\* ResponseAggregator.process: delivers an envelope built from the payload
\* alone, whose message_id is the literal "unknown"; it catches its own
\* exceptions and reports them to the error-notification subject
Aggregator_process(r, pub) ==
    Bind(r, LAMBDA x :
        LET m == IF x.obj.response = None
                 THEN [x.obj EXCEPT !.response = "aggregator_fallback"] ELSE x.obj
        IN  Bind(PublishAs(With(x, m), default_response_subject, "unknown", pub),
                 LAMBDA delivered :
                     IF delivered.raised
                     THEN Caught(PublishAs(Caught(delivered), error_delivery_subject,
                                           "unknown", pub))
                     ELSE delivered))

\* ResponseAggregator._get_delivery_subject (no response_subject override)
_get_delivery_subject(m) ==
    IF m.api_request THEN default_response_subject
    ELSE <<"ecommerce", "support", "response", "session">>

\* a delivery-error handler that reports nothing
_handle_delivery_error_silent(r, pub) == r

\* ResponseAggregator._handle_delivery_error
_handle_delivery_error(r, pub) ==
    Bind(r, LAMBDA x :
        LET m == add_error(x.obj, "response_delivery_error", "response_aggregator")
        IN  Caught(Publish(With(x, m), error_delivery_subject, pub)))

\* ResponseAggregator._route_to_next
Aggregator_route_to_next(r, pub) ==
    Bind(r, LAMBDA x :
        LET m == IF x.obj.response = None
                 THEN [x.obj EXCEPT !.response = "aggregator_fallback"] ELSE x.obj
        IN  Bind(Publish(With(x, m), _get_delivery_subject(m), pub), LAMBDA delivered :
                IF delivered.raised
                THEN _handle_delivery_error(Caught(delivered), pub)
                ELSE delivered))

(***************************************************************************)
(* What the pluggable process() units return, drawn from small sets        *)
(***************************************************************************)
Urgencies   == {"low", "high", "critical"}
Sentiments  == {"neutral", "negative"}
Intensities == {5, 8, 9}
Intents     == {"order_status", "refund_request", "technical_support", "legal_threat"}
Confidences == {4, 5, 9}
Tiers       == {"standard", "VIP"}
OrderCounts == {0, 6}

Sentiment(u, s, i) ==
    [NoSentiment EXCEPT !.present = TRUE, !.urgency = u, !.sentiment = s, !.intensity = i]
Intent(t, c) == [NoIntent EXCEPT !.present = TRUE, !.intent = t, !.confidence = c]
Context(t, n) == [NoContext EXCEPT !.present = TRUE, !.tier = t, !.orders = n]
Guardrail(a) == [NoGuardrail EXCEPT !.present = TRUE, !.approved = a]

\* the results the stages of the mesh return: a few of each kind, so that every
\* rule of the routers fires on some message
Results(name) ==
    CASE name = "sentiment_analyzer" ->
            {Sentiment("low", "neutral", 5), Sentiment("high", "negative", 8),
             Sentiment("critical", "negative", 9)}
      [] name = "intent_analyzer" ->
            {Intent("order_status", 9), Intent("order_status", 4),
             Intent("refund_request", 9), Intent("technical_support", 9),
             Intent("legal_threat", 5)}
      [] name = "context_retriever" -> {Context("standard", 0), Context("VIP", 6)}
      [] name = "guardrail_validator" ->
            {Guardrail(TRUE), Guardrail(FALSE), [Guardrail(TRUE) EXCEPT !.corrected = TRUE]}
      [] OTHER -> {TRUE}

\* the stage's _enrich_payload: exactly one named slot
_enrich_payload(name, m, result) ==
    CASE name = "sentiment_analyzer"    -> [m EXCEPT !.sentiment = result]
      [] name = "intent_analyzer"       -> [m EXCEPT !.intent = result]
      [] name = "context_retriever"     -> [m EXCEPT !.context = result]
      [] name = "response_generator"    -> [m EXCEPT !.response = "generated"]
      [] name = "guardrail_validator"   ->
            [m EXCEPT !.guardrail_check = result,
                      !.response = IF result.corrected THEN "corrected" ELSE @]
      [] name = "execution_coordinator" -> [m EXCEPT !.execution_result = TRUE]
      [] OTHER -> m

\* how process() can end at a stage: the routers' process() is `return None`
\* and the aggregator's catches everything it raises
Outcomes(name) ==
    IF name \in ProcessorActors THEN {"ok", "timeout", "exception"} ELSE {"ok"}

\* the stage's route-advance strategy (_route_to_next and its overrides)
RouteToNext(name, r, pub) ==
    CASE name = "decision_router"     -> Decision_route_message(r, pub)
      [] name = "escalation_router"   -> Escalation_route_message(r, pub)
      [] name = "response_aggregator" -> Aggregator_route_to_next(r, pub)
      [] OTHER -> _route_to_next(r, pub)

\* a faulty variant of the route check, which lets everything through
Misrouted_never(name, m) == FALSE

\* the route check of _process_message: current_actor != self.name
Misrouted(name, m) == get_current_actor(m.route) # name

\* BaseActor._process_message: json.loads / Message(**data) raise on bytes that
\* do not deserialize, before message_obj is assigned
_process_message(name, m, outcome, result, pub) ==
    IF m.malformed
    THEN _handle_error_no_object(Start(m))
    ELSE IF Misrouted(name, m)
    THEN Call(Start(m), "nak")
    ELSE LET called == Call(Start(m), "process")
         IN  CASE outcome = "timeout"   -> _handle_error(called, name, "timeout", pub)
               [] outcome = "exception" -> _handle_error(called, name, "processing_error", pub)
               [] outcome = "ok" ->
                    LET done == IF name = "response_aggregator"
                                THEN Aggregator_process(called, pub)
                                ELSE With(called, _enrich_payload(name, m, result))
                    IN  Bind(RouteToNext(name, done, pub), LAMBDA routed :
                            IF routed.raised
                            THEN _handle_error(routed, name, "processing_error", pub)
                            ELSE Call(routed, "ack"))

(***************************************************************************)
(* The mesh: one message, the stream's durable work queue, the stages      *)
(***************************************************************************)
NoMessage == Message(<<>>, None, 0, FALSE, FALSE)

NoRun == [actor |-> None, tag |-> 0, pub |-> {}, outcome |-> None,
          in |-> NoMessage, obj |-> NoMessage, ev |-> <<>>]

\* the sets of failing publish attempts a run may meet
PubFaults == {{}, {1}, {2}, {1, 2}, {2, 3}}

Copy(subj, m) == [subj |-> subj, msg |-> m]

InitMesh ==
    /\ broker = {}
    /\ replies = {}
    /\ seeded = "none"
    /\ last = NoRun
    /\ faults = 0

InitRoute ==
    /\ rt = [steps |-> <<>>, current_step |-> 0, error_handler |-> None]
    /\ calls = 0
    /\ trues = 0
    /\ ret = "none"

InitClass ==
    /\ einput = <<NoMessage, NoMessage>>
    /\ ekind = <<"none", "none">>
    /\ queue_position = 0

\* the chat requests of the model, named by the message_id uuid4() gives them
Requests == {"id1", "id2"}

NoFuture == [state |-> "none", value |-> None]
NoResult == [status |-> 0, response |-> None]

\* the WebSocket connections of the model, named by the uuid4() connect gives them
Connections == {"c1", "c2"}

\* WebSocketManager.__init__
InitWs ==
    /\ active_connections = {}
    /\ session_connections = {}
    /\ ws_pending = {}
    /\ ws_made = {}
    /\ ws_seen = {}
    /\ pushed = {}
    /\ wloop = [c \in Connections |-> "none"]
    /\ wnc = "open"

\* the deliveries the broker hands to the runtime, in the order of arrival
Units == 1..MaxUnits

\* BaseActor.__init__ followed by start()
InitStop ==
    /\ _running = TRUE
    /\ _tasks = {}
    /\ unit = [u \in Units |-> "none"]
    /\ awaited = {}
    /\ spc = "idle"
    /\ nc = "open"

\* APIGateway.__init__
InitGateway ==
    /\ pending_requests = {}
    /\ future = [r \in Requests |-> NoFuture]
    /\ gpc = [r \in Requests |-> "idle"]
    /\ gresult = [r \in Requests |-> NoResult]
    /\ arrived = <<>>

\* APIGateway.chat_endpoint, up to the publish of the seed message
GatewaySeed ==
    /\ seeded = "none"
    /\ \E keyword \in BOOLEAN :
         LET m == Message(FULL_PROCESSING_PIPELINE, None, 0, TRUE, keyword)
         IN  broker' = broker \cup {Copy(Subject(get_current_actor(m.route)), m)}
    /\ seeded' = "gateway"
    /\ UNCHANGED <<replies, last, faults, notMesh>>

\* StandardRoutes.complaint_analysis_route().steps
COMPLAINT_ANALYSIS_STEPS ==
    <<"sentiment_analyzer", "intent_analyzer", "context_retriever", "decision_router">>

\* a harness publishes create_support_message(...) on one of the standard routes,
\* with the error handler and the retry_count metadata a test sets
HarnessSeed ==
    /\ seeded = "none"
    /\ \E steps \in {FULL_PROCESSING_PIPELINE, COMPLAINT_ANALYSIS_STEPS},
          retry_count \in 0..max_retries,
          error_handler \in {None, "escalation_router"} :
         LET m == Message(steps, error_handler, retry_count, FALSE, FALSE)
         IN  broker' = broker \cup {Copy(Subject(get_current_actor(m.route)), m)}
    /\ seeded' = "harness"
    /\ UNCHANGED <<replies, last, faults, notMesh>>

\* something publishes bytes that are not a Message on a stage's subject
MalformedSeed ==
    /\ seeded = "none"
    /\ \E name \in Actors :
         broker' = broker \cup {Copy(Subject(name), [NoMessage EXCEPT !.malformed = TRUE])}
    /\ seeded' = "malformed"
    /\ UNCHANGED <<replies, last, faults, notMesh>>

StreamPublishes(ev) == {Copy(ev[i].subj, ev[i].msg) : i \in {j \in PublishesOf(ev) : Len(ev[j].subj) = 3}}
CorePublishes(ev) ==
    {[subj |-> ev[i].subj, mid |-> ev[i].mid] : i \in {j \in PublishesOf(ev) : Len(ev[j].subj) # 3}}

\* the broker delivers a copy from the stage's durable queue and the stage's
\* runtime handles it to the end
Deliver(name, pubs) ==
    \E c \in broker, outcome \in Outcomes(name), result \in Results(name), pub \in pubs :
        /\ c.subj = Subject(name)
        /\ pub # {} => faults < MaxFaults
        /\ \E r \in {_process_message(name, c.msg, outcome, result, pub)} :
               /\ broker' = (IF Acked(r.ev) THEN broker \ {c} ELSE broker)
                                \cup StreamPublishes(r.ev)
               /\ replies' = replies \cup CorePublishes(r.ev)
               /\ last' = [actor |-> name, tag |-> 1 - last.tag, pub |-> pub,
                           outcome |-> outcome, in |-> c.msg, obj |-> r.obj, ev |-> r.ev]
               /\ faults' = IF r.att > Cardinality(PublishesOf(r.ev)) THEN faults + 1 ELSE faults
        /\ UNCHANGED <<seeded, notMesh>>

DeliverProcessor(pubs) == \E name \in ProcessorActors : Deliver(name, pubs)
DeliverDecisionRouter(pubs) == Deliver("decision_router", pubs)
DeliverEscalationRouter(pubs) == Deliver("escalation_router", pubs)
DeliverAggregator(pubs) == Deliver("response_aggregator", pubs)

Init == InitMesh /\ InitRoute /\ InitClass /\ InitGateway /\ InitWs /\ InitStop

Next ==
    \/ GatewaySeed
    \/ HarnessSeed
    \/ MalformedSeed
    \/ DeliverProcessor(PubFaults)
    \/ DeliverDecisionRouter(PubFaults)
    \/ DeliverEscalationRouter(PubFaults)
    \/ DeliverAggregator(PubFaults)

Spec == Init /\ [][Next]_vars

(***************************************************************************)
(* The mesh on a broker whose publish calls succeed and which redelivers   *)
(* fairly: a stage with a deliverable copy in its durable queue is         *)
(* eventually handed one (JetStream redelivers what is not acknowledged).  *)
(***************************************************************************)
Reliable == {{}}

FairNext ==
    \/ GatewaySeed
    \/ HarnessSeed
    \/ DeliverProcessor(Reliable)
    \/ DeliverDecisionRouter(Reliable)
    \/ DeliverEscalationRouter(Reliable)
    \/ DeliverAggregator(Reliable)

FairSpec ==
    /\ Init
    /\ [][FairNext]_vars
    /\ \A name \in Actors : WF_vars(Deliver(name, Reliable))

(***************************************************************************)
(* Route alone: a route of any length with the cursor at 0, on which       *)
(* advance() is called again and again.                                    *)
(***************************************************************************)
RouteNames == {"sentiment_analyzer", "response_aggregator"}

RECURSIVE StepsOfLen(_)
StepsOfLen(n) ==
    IF n = 0 THEN {<<>>}
    ELSE {Append(s, a) : s \in StepsOfLen(n - 1), a \in RouteNames}

InitRouteUnderTest ==
    /\ InitMesh
    /\ InitClass
    /\ InitGateway
    /\ InitWs
    /\ InitStop
    /\ \E n \in 0..MaxSteps : \E s \in StepsOfLen(n) :
          rt = [steps |-> s, current_step |-> 0, error_handler |-> None]
    /\ calls = 0
    /\ trues = 0
    /\ ret = "none"

\* one call of rt.advance()
Advance ==
    /\ calls < MaxCalls
    /\ ret' = IF advance_result(rt) THEN "True" ELSE "False"
    /\ rt' = advance(rt)
    /\ trues' = IF advance_result(rt) THEN trues + 1 ELSE trues
    /\ calls' = calls + 1
    /\ UNCHANGED notRoute

SpecRoute == InitRouteUnderTest /\ [][Advance]_vars

(***************************************************************************)
(* The escalation classification alone: _determine_escalation_type is      *)
(* called on a message, the router serves handoffs (which moves its        *)
(* queue_position), and the classification is called again on a second     *)
(* message, which is the first one or differs from it in one field.        *)
(***************************************************************************)
RetryCounts == 0..max_auto_retries

Errors == {NoError, [present |-> TRUE, type |-> "processing_error",
                     actor |-> "response_generator"]}

\* the messages the classification is called on
ClassifyInputs ==
    {[Message(FULL_PROCESSING_PIPELINE, None, rc, TRUE, kw) EXCEPT
          !.error = e, !.sentiment = se, !.intent = it, !.context = cx,
          !.guardrail_check = [NoGuardrail EXCEPT !.present = TRUE, !.passed = g]] :
       rc \in RetryCounts, kw \in BOOLEAN, e \in Errors,
       se \in {NoSentiment} \cup {Sentiment("high", s, i) : s \in Sentiments, i \in Intensities},
       it \in {NoIntent} \cup {Intent(t, c) : t \in {"order_status", "legal_threat"},
                                              c \in Confidences},
       cx \in {NoContext} \cup {Context(t, 0) : t \in Tiers},
       g \in BOOLEAN}

\* a second message: the same one, one that differs in what the classification
\* does not read, or one that differs in the escalation keyword
Variations(m) ==
    {m,
     [m EXCEPT !.response = "generated", !.recovery_log = @ + 1,
               !.route.current_step = 4, !.sentiment.urgency = "critical",
               !.context.orders = 6],
     [m EXCEPT !.customer_keyword = ~@]}

InitClassify ==
    /\ InitMesh
    /\ InitRoute
    /\ InitGateway
    /\ InitWs
    /\ InitStop
    /\ \E m \in ClassifyInputs : \E m2 \in Variations(m) : einput = <<m, m2>>
    /\ ekind = <<"none", "none">>
    /\ queue_position = 0

\* escalation_type = self._determine_escalation_type(message), first message
ClassifyFirst ==
    /\ ekind[1] = "none"
    /\ ekind' = [ekind EXCEPT ![1] = _determine_escalation_type(einput[1])]
    /\ UNCHANGED <<einput, queue_position, notClass>>

\* the rest of route_message(message) for the first message, called on the
\* router directly with a broker that accepts every publish
RouteFirst ==
    /\ ekind[1] # "none"
    /\ last = NoRun
    /\ \E r \in {Escalation_route_message(Start(einput[1]), {})} :
          last' = [actor |-> "escalation_router", tag |-> 1, pub |-> {},
                   outcome |-> "ok", in |-> einput[1], obj |-> r.obj, ev |-> r.ev]
    /\ queue_position' = IF ekind[1] = "human_handoff"
                         THEN queue_position + 1 ELSE queue_position
    /\ UNCHANGED <<einput, ekind, broker, replies, seeded, faults,
                   routeVars, gatewayVars, wsVars, stopVars>>

\* _handle_human_handoff of some other message: self.queue_position += 1
ServeHandoff ==
    /\ queue_position < MaxQueue
    /\ queue_position' = queue_position + 1
    /\ UNCHANGED <<einput, ekind, notClass>>

\* the classification of the second message, after the first
ClassifySecond ==
    /\ ekind[1] # "none"
    /\ ekind[2] = "none"
    /\ ekind' = [ekind EXCEPT ![2] = _determine_escalation_type(einput[2])]
    /\ UNCHANGED <<einput, queue_position, notClass>>

NextClassify == ClassifyFirst \/ RouteFirst \/ ServeHandoff \/ ClassifySecond

SpecClassify == InitClassify /\ [][NextClassify]_vars

(***************************************************************************)
(* The Client Correlator of the HTTP gateway (api/gateway.py): chat        *)
(* requests run concurrently on one event loop; a step is what a coroutine *)
(* does between two suspensions.                                           *)
(***************************************************************************)
\* a faulty variant of the lookup, which takes whatever handle is pending
AnyPendingKey(message_id, pending) == CHOOSE k \in pending : TRUE

\* the entry of pending_requests a reply with this message_id pops
PendingKey(message_id, pending) == message_id

\* a faulty variant of pop, which keeps the entry
PopNothing(pending, message_id) == pending

\* self.pending_requests.pop(message_id, None)
Pop(pending, message_id) == pending \ {message_id}

\* a faulty variant of the registration, which leaves the map as it was
RegisterLate(pending, message_id) == pending

\* self.pending_requests[message_id] = response_future
Register(pending, message_id) == pending \cup {message_id}

\* chat_endpoint up to the call of _publish_message: the handle is made and
\* registered
ChatBegin(r) ==
    /\ gpc[r] = "idle"
    /\ pending_requests' = Register(pending_requests, r)
    /\ future' = [future EXCEPT ![r] = [state |-> "pending", value |-> None]]
    /\ gpc' = [gpc EXCEPT ![r] = "registered"]
    /\ UNCHANGED <<gresult, arrived, notGateway>>

\* `await self._publish_message(subject, message)`, up to `await
\* asyncio.wait_for(response_future, ...)`; the publish of the seed message may
\* raise, which ends the request with a 500
ChatPublish(r) ==
    /\ gpc[r] = "registered"
    /\ \E published \in BOOLEAN :
         IF published
         THEN /\ gpc' = [gpc EXCEPT ![r] = "waiting"]
              /\ UNCHANGED <<pending_requests, gresult>>
         ELSE /\ pending_requests' = Pop(pending_requests, r)
              /\ gpc' = [gpc EXCEPT ![r] = "ended"]
              /\ gresult' = [gresult EXCEPT ![r] = [status |-> 500, response |-> None]]
    /\ UNCHANGED <<future, arrived, notGateway>>

\* the message_ids and bodies of the replies that arrive: those of the requests,
\* and the literal "unknown" the aggregator's process() puts in its envelope
ReplyIds == Requests \cup {"unknown"}
Bodies == {"for_" \o r : r \in Requests}

\* a faulty variant of the fulfilment, which does not look at the handle's state
FulfilAlways(fut, body) == [state |-> "done", value |-> body]

\* if not future.done(): future.set_result(response_data)
Fulfil(fut, body) ==
    IF fut.state = "pending" THEN [state |-> "done", value |-> body] ELSE fut

\* APIGateway._handle_response_message for one reply
HandleResponse(message_id, body) ==
    /\ Len(arrived) < MaxReplies
    /\ arrived' = Append(arrived, [mid |-> message_id, body |-> body])
    /\ IF message_id \in pending_requests
       THEN LET k == PendingKey(message_id, pending_requests)
            IN  /\ pending_requests' = Pop(pending_requests, k)
                /\ future' = [future EXCEPT ![k] = Fulfil(future[k], body)]
       ELSE UNCHANGED <<pending_requests, future>>
    /\ UNCHANGED <<gpc, gresult, notGateway>>

\* a reply carries a request's message_id only after the request published its
\* seed message
ResponseArrives ==
    \E message_id \in ReplyIds, body \in Bodies :
        /\ message_id \in Requests => gpc[message_id] \notin {"idle", "registered"}
        /\ HandleResponse(message_id, body)

\* wait_for's timeout expires: it cancels the handle; the request resumes later
TimeoutExpires(r) ==
    /\ gpc[r] = "waiting"
    /\ future[r].state = "pending"
    /\ future' = [future EXCEPT ![r] = [state |-> "cancelled", value |-> None]]
    /\ gpc' = [gpc EXCEPT ![r] = "timed_out"]
    /\ UNCHANGED <<pending_requests, gresult, arrived, notGateway>>

\* except asyncio.TimeoutError: pop the handle, raise HTTPException(504)
TimeoutReturns(r) ==
    /\ gpc[r] = "timed_out"
    /\ pending_requests' = Pop(pending_requests, r)
    /\ gpc' = [gpc EXCEPT ![r] = "ended"]
    /\ gresult' = [gresult EXCEPT ![r] = [status |-> 504, response |-> None]]
    /\ UNCHANGED <<future, arrived, notGateway>>

\* wait_for returns the handle's result: return ChatResponse(response=...)
ChatReturns(r) ==
    /\ gpc[r] = "waiting"
    /\ future[r].state = "done"
    /\ gpc' = [gpc EXCEPT ![r] = "ended"]
    /\ gresult' = [gresult EXCEPT ![r] = [status |-> 200, response |-> future[r].value]]
    /\ UNCHANGED <<pending_requests, future, arrived, notGateway>>

NextGateway ==
    \/ \E r \in Requests : ChatBegin(r)
    \/ \E r \in Requests : ChatPublish(r)
    \/ ResponseArrives
    \/ \E r \in Requests : TimeoutExpires(r)
    \/ \E r \in Requests : TimeoutReturns(r)
    \/ \E r \in Requests : ChatReturns(r)

SpecGateway == Init /\ [][NextGateway]_vars

(***************************************************************************)
(* The WebSocket manager (api/websocket.py) and the endpoint coroutine of  *)
(* each connection (APIGateway.websocket_endpoint): connect, then a loop   *)
(* of receive_text / handle_message, then disconnect in the finally block. *)
(* pending_requests is the dict message_id -> connection_id, held as the   *)
(* set of its items.                                                       *)
(***************************************************************************)
WsIds == {"m1", "m2"}           \* the message_ids uuid4() gives to chat messages
Sessions == {None, "s1"}        \* the session_id query parameter of a connection

Frame(c, type, mid) == [conn |-> c, type |-> type, mid |-> mid]

\* _disconnect that forgets the pending requests of the connection
messages_to_remove_none(pending, connection_id) == {}

\* _disconnect: the items of pending_requests whose conn_id is the connection
messages_to_remove(pending, connection_id) == {e \in pending : e.conn = connection_id}

\* WebSocketManager.get_connection_stats
get_connection_stats ==
    [active_connections |-> Cardinality(active_connections),
     active_sessions    |-> Cardinality(session_connections),
     pending_requests   |-> Cardinality(ws_pending),
     connections        |-> active_connections]

\* websocket_endpoint up to the loop: WebSocketManager.connect; when the welcome
\* frame cannot be sent connect raises, connection_id stays None in the endpoint
\* and the finally block disconnects nothing
WsConnect(c) ==
    /\ wloop[c] = "none"
    /\ \E session_id \in Sessions, sent \in BOOLEAN :
         /\ active_connections' = active_connections \cup {c}
         /\ session_connections' =
                IF session_id # None
                THEN {e \in session_connections : e.session # session_id}
                        \cup {[session |-> session_id, conn |-> c]}
                ELSE session_connections
         /\ pushed' = IF sent THEN pushed \cup {Frame(c, "connected", None)} ELSE pushed
         /\ wloop' = [wloop EXCEPT ![c] = IF sent THEN "open" ELSE "closed"]
    /\ UNCHANGED <<ws_pending, ws_made, ws_seen, wnc, meshVars, notWs>>

\* one turn of the endpoint loop with a chat frame: handle_message and
\* _handle_chat_message; the pending entry is set before the publish, and a
\* publish that raises, as every publish on a closed connection does, is
\* answered with an error frame
WsChat(c, message_id) ==
    /\ wloop[c] = "open"
    /\ message_id \notin ws_made
    /\ ws_made' = ws_made \cup {message_id}
    /\ ws_pending' = ws_pending \cup {[mid |-> message_id, conn |-> c]}
    /\ \E keyword \in BOOLEAN, published \in (IF wnc = "closed" THEN {FALSE} ELSE BOOLEAN) :
         LET m == [Message(FULL_PROCESSING_PIPELINE, None, 0, FALSE, keyword)
                     EXCEPT !.message_id = message_id]
         IN  /\ broker' = IF published
                          THEN broker \cup {Copy(Subject(get_current_actor(m.route)), m)}
                          ELSE broker
             /\ pushed' = pushed \cup {IF published THEN Frame(c, "message_sent", message_id)
                                       ELSE Frame(c, "error", None)}
    /\ UNCHANGED <<replies, seeded, last, faults, active_connections,
                   session_connections, ws_seen, wloop, wnc, notWs>>

\* the subscription of _setup_response_subscription hands one envelope published
\* on "ecommerce.support.gateway.response" to _handle_response_message
WsHandleResponse ==
    \E e \in replies \ ws_seen :
        /\ wnc # "closed"
        /\ e.subj = default_response_subject
        /\ ws_seen' = ws_seen \cup {e}
        /\ LET known == {p \in ws_pending : p.mid = e.mid}
           IN  /\ ws_pending' = ws_pending \ known
               /\ pushed' = pushed \cup {Frame(p.conn, "chat_response", e.mid) :
                                           p \in {q \in known : q.conn \in active_connections}}
        /\ UNCHANGED <<active_connections, session_connections, ws_made, wloop, wnc,
                       meshVars, notWs>>

\* receive_text raises WebSocketDisconnect, the loop breaks and the finally block
\* calls WebSocketManager.disconnect, which runs _disconnect
WsDisconnect(c) ==
    /\ wloop[c] = "open"
    /\ wloop' = [wloop EXCEPT ![c] = "closed"]
    /\ IF c \in active_connections
       THEN /\ active_connections' = active_connections \ {c}
            /\ session_connections' = {e \in session_connections : e.conn # c}
            /\ ws_pending' = ws_pending \ messages_to_remove(ws_pending, c)
       ELSE UNCHANGED <<active_connections, session_connections, ws_pending>>
    /\ UNCHANGED <<ws_made, ws_seen, pushed, wnc, meshVars, notWs>>

\* WebSocketManager.shutdown up to `await self.nc.close()`: _disconnect, which
\* does not suspend, for every active connection; the sockets are not closed, so
\* the endpoint loops of the connections go on
WsShutdown ==
    /\ wnc = "open"
    /\ active_connections' = {}
    /\ session_connections' = {e \in session_connections : e.conn \notin active_connections}
    /\ ws_pending' = ws_pending \ UNION {messages_to_remove(ws_pending, c) :
                                            c \in active_connections}
    /\ wnc' = "closing"
    /\ UNCHANGED <<ws_made, ws_seen, pushed, wloop, meshVars, notWs>>

\* nc.close() returns: the subscription is gone and every publish raises
WsShutdownReturns ==
    /\ wnc = "closing"
    /\ wnc' = "closed"
    /\ UNCHANGED <<active_connections, session_connections, ws_pending, ws_made,
                   ws_seen, pushed, wloop, meshVars, notWs>>

\* some publisher puts an envelope on the manager's reply subject: one that
\* carries the id of a chat message, or the "unknown" of ResponseAggregator.process
ResponsePublished ==
    \E message_id \in ws_made \cup {"unknown"} :
        /\ [subj |-> default_response_subject, mid |-> message_id] \notin replies
        /\ replies' = replies \cup {[subj |-> default_response_subject, mid |-> message_id]}
        /\ UNCHANGED <<broker, seeded, last, faults, wsVars, notWs>>

NextWs ==
    \/ \E c \in Connections : WsConnect(c)
    \/ \E c \in Connections, message_id \in WsIds : WsChat(c, message_id)
    \/ WsHandleResponse
    \/ \E c \in Connections : WsDisconnect(c)
    \/ WsShutdown
    \/ WsShutdownReturns
    \/ ResponsePublished

SpecWs == Init /\ [][NextWs]_vars

(***************************************************************************)
(* BaseActor.stop beside the subscription callback of the same runtime     *)
(* (actors/base.py): each delivery becomes a task held in _tasks until its *)
(* done callback discards it.                                              *)
(***************************************************************************)
\* asyncio.gather(*self._tasks): the units that were in _tasks at the call
gather_snapshot(tasks, snapshot) == snapshot

\* _handle_message_wrapper: the subscription hands a delivery to the runtime
DeliveryArrives(u) ==
    /\ nc = "open"
    /\ unit[u] = "none"
    /\ \A v \in Units : v < u => unit[v] # "none"
    /\ unit' = [unit EXCEPT ![u] = "running"]
    /\ _tasks' = _tasks \cup {u}
    /\ UNCHANGED <<_running, awaited, spc, nc, notStop>>

\* a unit ends, by itself or by the CancelledError raised in it, and its done
\* callback discards it from _tasks
UnitEnds(u) ==
    /\ unit[u] \in {"running", "cancelling"}
    /\ unit' = [unit EXCEPT ![u] = "done"]
    /\ _tasks' = _tasks \ {u}
    /\ UNCHANGED <<_running, awaited, spc, nc, notStop>>

\* stop() up to its first suspension: the cancel loop, then gather when there
\* are tasks, else the close of the connection
StopBegins ==
    /\ spc = "idle"
    /\ _running
    /\ _running' = FALSE
    /\ unit' = [u \in Units |-> IF u \in _tasks /\ unit[u] # "done"
                                THEN "cancelling" ELSE unit[u]]
    /\ IF _tasks # {}
       THEN /\ awaited' = _tasks
            /\ spc' = "waiting"
            /\ nc' = nc
       ELSE /\ awaited' = {}
            /\ spc' = "returned"
            /\ nc' = "closed"
    /\ UNCHANGED <<_tasks, notStop>>

\* gather returns once every awaited unit is done; stop() closes the
\* connection and returns
StopResumes ==
    /\ spc = "waiting"
    /\ \A u \in gather_snapshot(_tasks, awaited) : unit[u] = "done"
    /\ nc' = "closed"
    /\ spc' = "returned"
    /\ UNCHANGED <<_running, _tasks, unit, awaited, notStop>>

NextStop ==
    \/ \E u \in Units : DeliveryArrives(u)
    \/ \E u \in Units : UnitEnds(u)
    \/ StopBegins
    \/ StopResumes

SpecStop == Init /\ [][NextStop]_vars

(***************************************************************************)
(* The mesh behind one WebSocket client: connection c1 stays open and      *)
(* sends the chat message m1, the stages handle it with a reliable broker  *)
(* and fair redelivery, and the manager's subscription is served fairly.   *)
(***************************************************************************)
NextWsMesh ==
    \/ WsConnect("c1")
    \/ WsChat("c1", "m1")
    \/ DeliverProcessor(Reliable)
    \/ DeliverDecisionRouter(Reliable)
    \/ DeliverEscalationRouter(Reliable)
    \/ DeliverAggregator(Reliable)
    \/ WsHandleResponse

FairSpecWs ==
    /\ Init
    /\ [][NextWsMesh]_vars
    /\ \A name \in Actors : WF_vars(Deliver(name, Reliable))
    /\ WF_vars(WsHandleResponse)

(***************************************************************************)
(* Properties.  A handler run is read from `last`: the message as it was   *)
(* delivered (last.in), the message object the run left (last.obj) and the *)
(* calls it made in order (last.ev).                                       *)
(***************************************************************************)
Ran == last.actor # None

\* process() was invoked and ended in a timeout or an exception
ProcessFailed == Ran /\ Processed(last.ev) /\ last.outcome \in {"timeout", "exception"}

\* the broker's publish calls all succeeded in the run
BrokerOk == last.pub = {}

Delivered(mid) == \E e \in replies : e.subj = default_response_subject /\ e.mid = mid

\* C1: every message seeded by the gateway on the full pipeline eventually has a
\* delivery envelope with its own message_id published on the gateway reply
\* subject, whatever the stages' process() calls do.
C1_EventuallyDelivered == (seeded = "gateway") ~> Delivered("m1")

\* C2: retry at a stage is bounded because the retry_count seen on a redelivery
\* is one higher than the one seen on the delivery that failed before it: when a
\* run whose process() failed ends in a negative acknowledgement and the stage's
\* next run handles the message at the same place of the same route, that run
\* sees retry_count one higher.
C2_RedeliveryCountsUp ==
    [][(/\ ProcessFailed
        /\ Naked(last.ev)
        /\ last'.tag # last.tag
        /\ last'.actor = last.actor
        /\ last'.in.route = last.in.route
        /\ Processed(last'.ev))
       => last'.in.retry_count = last.in.retry_count + 1]_vars

\* C3: a process() failure on a delivery with retry_count = k < max_retries
\* leaves retry_count at exactly k + 1 and negatively-acknowledges the delivery;
\* it does not acknowledge it and publishes nothing.
C3_RetryBelowMax ==
    (ProcessFailed /\ last.in.retry_count < max_retries)
    => /\ last.obj.retry_count = last.in.retry_count + 1
       /\ Naked(last.ev)
       /\ ~Acked(last.ev)
       /\ PublishesOf(last.ev) = {}

C3_Witness ==
    /\ ProcessFailed
    /\ last.in.retry_count = 2
    /\ last.obj.retry_count = 3
    /\ Naked(last.ev)

\* C4: a process() failure on a delivery with retry_count >= max_retries
\* publishes the message exactly once, to the subject of route.error_handler,
\* and acknowledges the delivery without a negative acknowledgement.
C4_ExhaustedPublishesOnce ==
    (ProcessFailed /\ BrokerOk /\ last.in.retry_count >= max_retries)
    => /\ Cardinality(PublishesOf(last.ev)) = 1
       /\ \A i \in PublishesOf(last.ev) :
             last.ev[i].subj = Subject(last.in.route.error_handler)
       /\ Acked(last.ev)
       /\ ~Naked(last.ev)

\* C5: on the failure path with retries exhausted the delivery is acknowledged
\* only after the message, with the error record, was published to
\* route.error_handler, or to the default escalation stage when it is unset.
C5_AckOnlyAfterHandOff ==
    (ProcessFailed /\ last.in.retry_count >= max_retries)
    => \A j \in 1..Len(last.ev) :
          last.ev[j].op = "ack"
          => \E i \in 1..(j - 1) :
                /\ last.ev[i].op = "publish"
                /\ last.ev[i].msg.error.present
                /\ last.ev[i].subj =
                      Subject(IF last.in.route.error_handler # None
                              THEN last.in.route.error_handler
                              ELSE "escalation_router")

\* C6: a delivery whose current route stage is not the receiving runtime never
\* reaches process(), is negatively-acknowledged and not acknowledged, publishes
\* nothing and leaves retry_count and recovery_log as they were.
C6_MisrouteRejected ==
    (Ran /\ get_current_actor(last.in.route) # last.actor)
    => /\ ~Processed(last.ev)
       /\ Naked(last.ev)
       /\ ~Acked(last.ev)
       /\ PublishesOf(last.ev) = {}
       /\ last.obj.retry_count = last.in.retry_count
       /\ last.obj.recovery_log = last.in.recovery_log
       /\ Copy(Subject(last.actor), last.in) \in broker

C6_Witness ==
    /\ Ran
    /\ last.actor = "escalation_router"
    /\ get_current_actor(last.in.route) = "sentiment_analyzer"
    /\ Naked(last.ev)

\* C7: default route-advance of a processor stage after a successful process(),
\* the broker's publish succeeding: not at the last step, the cursor advances by
\* exactly one and the message is published exactly once, to the subject of the
\* new current step; at the last step nothing is published; in both cases the
\* acknowledgement is the last call of the run.
C7_DefaultAdvance ==
    (/\ Ran
     /\ last.actor \in ProcessorActors
     /\ Processed(last.ev)
     /\ last.outcome = "ok"
     /\ BrokerOk)
    => /\ IF last.in.route.current_step + 1 < Len(last.in.route.steps)
          THEN /\ last.obj.route.current_step = last.in.route.current_step + 1
               /\ Cardinality(PublishesOf(last.ev)) = 1
               /\ \A i \in PublishesOf(last.ev) :
                     /\ last.ev[i].subj =
                           Subject(last.in.route.steps[last.in.route.current_step + 2])
                     /\ last.ev[i].msg.route.current_step = last.in.route.current_step + 1
                     /\ last.ev[i].msg.route.steps = last.in.route.steps
          ELSE /\ PublishesOf(last.ev) = {}
               /\ last.obj.route.current_step = last.in.route.current_step
       /\ last.ev[Len(last.ev)].op = "ack"
       /\ ~Naked(last.ev)

C7_WitnessLastStep ==
    /\ Ran
    /\ last.actor \in ProcessorActors
    /\ Processed(last.ev)
    /\ last.outcome = "ok"
    /\ last.in.route.current_step + 1 = Len(last.in.route.steps)
    /\ PublishesOf(last.ev) = {}
    /\ Acked(last.ev)

\* the copies of the message a run published to the stream
Copies == {i \in PublishesOf(last.ev) : Len(last.ev[i].subj) = 3}

\* C8 as stated: on every copy any stage publishes, route.current_step is not
\* lower than on the copy that was delivered to the stage.
C8_CursorNeverDecreases ==
    Ran => \A i \in Copies :
              last.ev[i].msg.route.current_step >= last.in.route.current_step

\* C8, amended: route.current_step of a published copy is not lower than that of
\* the delivered copy, except on the Decision Router's immediate escalation,
\* which replaces the route and restarts the cursor, and on the Escalation
\* Router's retry, which sets the cursor back to the failed stage.
C8_CursorDecreasesOnlyOnRewrite ==
    Ran => \A i \in Copies :
              \/ last.ev[i].msg.route.current_step >= last.in.route.current_step
              \/ /\ last.actor = "decision_router"
                 /\ _should_escalate_immediately(last.in.sentiment, last.in.intent,
                                                 last.in.context)
                 /\ last.ev[i].msg.route.steps = <<"escalation_router", "response_aggregator">>
                 /\ last.ev[i].msg.route.current_step = 1
              \/ /\ last.actor = "escalation_router"
                 /\ _determine_escalation_type(last.in) = "retry"
                 /\ _find_failed_step(last.in) # None
                 /\ last.ev[i].msg.route.current_step =
                       IndexOf(last.in.route.steps, _find_failed_step(last.in))

C8_Witness ==
    /\ Ran
    /\ last.actor = "decision_router"
    /\ ~_should_escalate_immediately(last.in.sentiment, last.in.intent, last.in.context)
    /\ last.obj.route.steps # last.in.route.steps
    /\ \E i \in Copies :
          last.ev[i].msg.route.current_step = last.in.route.current_step + 1

\* C9: on a route of N >= 1 steps with the cursor at 0, the first N-1 calls of
\* advance() return true and each moves the cursor by one, the route is complete
\* exactly from then on, and every later call returns false and leaves the
\* cursor at N-1; an empty route is complete and advance() on it returns false.
C9_AdvanceCounts ==
    LET N == Len(rt.steps)
    IN  /\ (N >= 1 /\ calls <= N - 1)
           => /\ trues = calls
              /\ rt.current_step = calls
              /\ calls > 0 => ret = "True"
        /\ (N >= 1 /\ calls < N - 1) => ~is_complete(rt)
        /\ (N >= 1 /\ calls >= N - 1) => is_complete(rt)
        /\ (N >= 1 /\ calls >= N)
           => /\ trues = N - 1
              /\ ret = "False"
              /\ rt.current_step = N - 1
        /\ N = 0
           => /\ is_complete(rt)
              /\ trues = 0
              /\ rt.current_step = 0
              /\ calls > 0 => ret = "False"

C9_Witness ==
    /\ Len(rt.steps) = 3
    /\ calls = 3
    /\ trues = 2
    /\ ret = "False"
    /\ rt.current_step = 2

\* C10: whenever the sentiment urgency is critical, after the Decision Router
\* has handled the message its route is exactly [escalation_router,
\* response_aggregator] with the cursor at 0.
C10_CriticalRouteAtZero ==
    (/\ Ran
     /\ last.actor = "decision_router"
     /\ Processed(last.ev)
     /\ BrokerOk
     /\ last.in.sentiment.urgency = "critical")
    => /\ last.obj.route.steps = <<"escalation_router", "response_aggregator">>
       /\ last.obj.route.current_step = 0
       /\ \A i \in Copies :
             /\ last.ev[i].msg.route.steps = <<"escalation_router", "response_aggregator">>
             /\ last.ev[i].msg.route.current_step = 0

\* what the classification is said to depend on
ClassifiedOn(m) ==
    <<m.error.present, m.retry_count, m.intent.confidence, m.customer_keyword,
      m.sentiment.sentiment, m.sentiment.intensity, m.context.tier, m.intent.intent,
      m.guardrail_check.passed>>

EscalationTypes ==
    {"retry", "human_handoff", "error_recovery", "fallback_response", "no_escalation"}

\* C11: the classification returns one of the five escalation types for every
\* message, and two calls on messages with the same error presence,
\* retry_count, intent confidence, escalation keyword, sentiment, tier, intent
\* and guardrail result return the same type, whatever the router served in
\* between.
C11_ClassificationIsAFunction ==
    /\ \A i \in {1, 2} : ekind[i] # "none" => ekind[i] \in EscalationTypes
    /\ (ekind[1] # "none" /\ ekind[2] # "none"
        /\ ClassifiedOn(einput[1]) = ClassifiedOn(einput[2]))
       => ekind[1] = ekind[2]

C11_Witness ==
    /\ ekind[1] = "human_handoff"
    /\ ekind[2] = "human_handoff"
    /\ einput[1] # einput[2]
    /\ ClassifiedOn(einput[1]) = ClassifiedOn(einput[2])
    /\ queue_position = MaxQueue

\* the retry condition and the handoff triggers of the escalation state machine
RetryCondition(m) == m.error.present /\ m.retry_count < max_auto_retries

HandoffTrigger(m) ==
    \/ m.intent.confidence < 5
    \/ m.customer_keyword
    \/ m.sentiment.sentiment = "negative" /\ m.sentiment.intensity > 7
    \/ m.context.tier = "VIP"
    \/ m.intent.intent \in {"legal_threat", "formal_complaint"}

\* C12: whenever the retry condition does not hold and a handoff trigger holds,
\* the message is classified as human_handoff.
C12_TriggerMeansHandoff ==
    (ekind[1] # "none" /\ ~RetryCondition(einput[1]) /\ HandoffTrigger(einput[1]))
    => ekind[1] = "human_handoff"

\* a run of the Escalation Router that classified the delivered message as retry
\* while the stage named in its error record is in the route
RetriedKnownStage ==
    /\ Ran
    /\ last.actor = "escalation_router"
    /\ Processed(last.ev)
    /\ BrokerOk
    /\ last.in.error.present
    /\ last.in.retry_count < max_auto_retries
    /\ In(last.in.error.actor, last.in.route.steps)

\* C13: on retry with the failed stage in the route, the Escalation Router
\* publishes the message exactly once, to the failed stage's subject, with the
\* cursor at that stage's index, `error` cleared and retry_count one higher, so
\* that the stage's route check accepts the copy.
C13_RetryRewindsToFailedStage ==
    RetriedKnownStage
    => /\ Cardinality(PublishesOf(last.ev)) = 1
       /\ \A i \in PublishesOf(last.ev) :
             LET p == last.ev[i].msg
             IN  /\ last.ev[i].subj = Subject(last.in.error.actor)
                 /\ p.route.steps = last.in.route.steps
                 /\ p.route.current_step < Len(p.route.steps)
                 /\ p.route.steps[p.route.current_step + 1] = last.in.error.actor
                 /\ \A j \in 1..p.route.current_step :
                       p.route.steps[j] # last.in.error.actor
                 /\ ~p.error.present
                 /\ p.retry_count = last.in.retry_count + 1
                 /\ get_current_actor(p.route) = last.in.error.actor

C13_Witness ==
    /\ RetriedKnownStage
    /\ last.in.error.actor = "decision_router"
    /\ \E c \in broker : /\ c.subj = Subject("decision_router")
                         /\ ~c.msg.error.present
                         /\ c.msg.retry_count = last.in.retry_count + 1

\* the first reply arrived that carries the message_id r, if any
FirstReplyFor(r) ==
    {i \in 1..Len(arrived) : arrived[i].mid = r /\ \A j \in 1..(i - 1) : arrived[j].mid # r}

\* C14: a chat request is completed only by a reply that carries its own
\* message_id and returns that reply's response, whatever the order in which
\* the replies of the concurrently pending requests arrive.
C14_OwnReplyOnly ==
    \A r \in Requests :
        /\ future[r].state = "done"
           => \E i \in FirstReplyFor(r) : future[r].value = arrived[i].body
        /\ gresult[r].status = 200
           => \E i \in FirstReplyFor(r) : gresult[r].response = arrived[i].body

\* both requests were pending together, the replies came in the other order and
\* carried each other's text, and each request returned its own reply
C14_Witness ==
    /\ Len(arrived) >= 2
    /\ arrived[1] = [mid |-> "id2", body |-> "for_id1"]
    /\ arrived[2] = [mid |-> "id1", body |-> "for_id2"]
    /\ gresult["id1"] = [status |-> 200, response |-> "for_id2"]
    /\ gresult["id2"] = [status |-> 200, response |-> "for_id1"]

\* C15: once a chat request has ended, fulfilled, timed out or failed while
\* publishing the seed, pending_requests holds no handle for its message_id; a
\* timeout ends with status 504; when all requests have ended the pending count
\* is zero.
C15_EndedLeavesNoHandle ==
    /\ \A r \in Requests : gpc[r] = "ended" => r \notin pending_requests
    /\ \A r \in Requests :
          (gpc[r] = "ended" /\ future[r].state = "cancelled") => gresult[r].status = 504
    /\ \A r \in Requests : gpc[r] = "ended" => gresult[r].status \in {200, 500, 504}
    /\ (\A r \in Requests : gpc[r] = "ended") => Cardinality(pending_requests) = 0

C15_Witness ==
    /\ gpc["id1"] = "ended" /\ gresult["id1"].status = 504
    /\ gpc["id2"] = "ended" /\ gresult["id2"].status = 200
    /\ pending_requests = {}

\* C16: a disconnect of a connection leaves no pending entry mapped to that
\* connection, leaves the pending entries of the other connections as they
\* were, and the pending_requests count of get_connection_stats is the number of
\* the entries that remain.
C16_DisconnectPurgesPending ==
    [][\A c \in Connections :
         (wloop[c] = "open" /\ wloop'[c] = "closed") =>
            /\ \A e \in ws_pending' : e.conn # c
            /\ ws_pending' = {e \in ws_pending : e.conn # c}
            /\ get_connection_stats'.pending_requests =
                   Cardinality({e \in ws_pending : e.conn # c})]_vars

\* c1 was disconnected while its chat message m1 was unanswered, and the
\* entry of c2 is still pending
C16_Witness ==
    /\ wloop["c1"] = "closed"
    /\ "c1" \notin active_connections
    /\ Frame("c1", "message_sent", "m1") \in pushed
    /\ Frame("c1", "chat_response", "m1") \notin pushed
    /\ ws_pending = {[mid |-> "m2", conn |-> "c2"]}
    /\ get_connection_stats.pending_requests = 1

\* the Response Aggregator has delivered the response of chat message mid:
\* its _route_to_next published the envelope that carries the message's id
AggregatorDelivered(mid) ==
    /\ \E e \in replies : e.mid = mid
    /\ \A c \in broker : c.msg.message_id # mid

\* C17: on a connection that stays open, once the Response Aggregator has
\* delivered the response of a chat message, a chat_response frame with the
\* message's id is eventually pushed to the connection and the message's
\* pending entry is removed.
C17_ResponsePushed ==
    (Frame("c1", "message_sent", "m1") \in pushed /\ AggregatorDelivered("m1"))
        ~> (/\ Frame("c1", "chat_response", "m1") \in pushed
            /\ \A p \in ws_pending : p.mid # "m1")

\* the aggregator has delivered the response of m1 and the manager has handled
\* every envelope on its subject, yet m1 is still pending with no frame pushed
C17_Stuck ==
    /\ Frame("c1", "message_sent", "m1") \in pushed
    /\ AggregatorDelivered("m1")
    /\ \A e \in replies : e.subj = default_response_subject => e \in ws_seen
    /\ [mid |-> "m1", conn |-> "c1"] \in ws_pending
    /\ Frame("c1", "chat_response", "m1") \notin pushed

StreamPublishesOf(ev) == {i \in PublishesOf(ev) : Len(ev[i].subj) = 3}

StillRunning(u) == unit[u] \in {"running", "cancelling"}

\* C19: once stop() has returned, no per-message unit of the runtime is still
\* running, the units of deliveries that arrived while stop() was waiting
\* included.
C19_NoUnitAfterStop ==
    spc = "returned" => \A u \in Units : ~StillRunning(u)

\* the part that holds: every unit that was in flight when stop() was called
\* has finished before the connection is closed
C19_AwaitedFinished ==
    nc = "closed" => \A u \in awaited : unit[u] = "done"

\* stop() has returned and closed the connection although a unit, handed over
\* while stop() waited for the earlier ones, was never cancelled and still runs
C19_LateUnit ==
    /\ spc = "returned"
    /\ nc = "closed"
    /\ awaited # {}
    /\ \E u \in Units : u \notin awaited /\ unit[u] = "running"

\* the guardrail stage handled a delivery to the end and its check rejected the
\* response
GuardrailRejected ==
    /\ Ran /\ last.actor = "guardrail_validator"
    /\ Acked(last.ev)
    /\ last.obj.guardrail_check.present /\ ~last.obj.guardrail_check.approved

\* C20: a message whose guardrail check failed is not retried and is handed to
\* the Escalation Router, not to the Response Aggregator with the rejected
\* response.
C20_RejectedGoesToEscalation ==
    GuardrailRejected =>
        /\ ~Naked(last.ev)
        /\ PublishesTo(last.ev, Subject("escalation_router")) # {}
        /\ PublishesTo(last.ev, Subject("response_aggregator")) = {}

\* the rejected response is on the Response Aggregator's queue, and the
\* Escalation Router would classify the message as needing no escalation
C20_RejectedReachesAggregator ==
    /\ GuardrailRejected
    /\ \E c \in broker :
          /\ c.subj = Subject("response_aggregator")
          /\ ~c.msg.guardrail_check.approved
          /\ c.msg.response # None
          /\ _determine_escalation_type(c.msg) = "no_escalation"

\* the kind of stage whose _enrich_payload owns each enrichment slot
Slots == {"sentiment", "intent", "context", "response", "guardrail_check",
          "execution_result"}

Writer(slot) ==
    CASE slot = "sentiment"        -> "sentiment_analyzer"
      [] slot = "intent"           -> "intent_analyzer"
      [] slot = "context"          -> "context_retriever"
      [] slot = "response"         -> "response_generator"
      [] slot = "guardrail_check"  -> "guardrail_validator"
      [] slot = "execution_result" -> "execution_coordinator"

\* the messages the last run put on stage subjects
PublishedOnward == {last.ev[i].msg : i \in StreamPublishesOf(last.ev)}

\* C21: a stage publishes the message with every enrichment slot as it received
\* it, except the slot its own kind owns; an Escalation Router pass changes no
\* enrichment slot.
C21_SlotWrittenByItsStage ==
    Ran => \A out \in PublishedOnward : \A slot \in Slots :
               out[slot] # last.in[slot] => last.actor = Writer(slot)

\* the Escalation Router received a message with a generated response and
\* published it with another response in its place
C21_ResponseReplaced ==
    /\ Ran /\ last.actor = "escalation_router"
    /\ last.in.response = "generated"
    /\ \E out \in PublishedOnward : out.response \notin {None, "generated"}

RouterActors == {"decision_router", "escalation_router"}

\* steps[0 .. current_step] of the route a run received
UpToCursor(steps) == Take(steps, last.in.route.current_step + 1)

\* C22: only a router stage publishes the message with other steps than it
\* received, and the steps at or before the cursor of the received route are
\* the same in what it publishes.
C22_StepsChangeAheadOfCursor ==
    Ran => \A out \in PublishedOnward :
              /\ last.actor \notin RouterActors => out.route.steps = last.in.route.steps
              /\ UpToCursor(out.route.steps) = UpToCursor(last.in.route.steps)

\* the part that holds: a stage that is not a router never changes the steps
C22_OnlyRoutersChangeSteps ==
    Ran => \A out \in PublishedOnward :
              last.actor \notin RouterActors => out.route.steps = last.in.route.steps

\* the Decision Router published a route in which the step under the received
\* cursor is gone: the immediate escalation replaced the whole list
C22_WholeRouteReplaced ==
    /\ Ran /\ last.actor = "decision_router"
    /\ _should_escalate_immediately(last.in.sentiment, last.in.intent, last.in.context)
    /\ \E out \in PublishedOnward :
          /\ out.route.steps = <<"escalation_router", "response_aggregator">>
          /\ ~In("decision_router", out.route.steps)

ImmediateEscalation ==
    /\ Ran /\ last.actor = "decision_router"
    /\ ~last.in.malformed /\ ~Misrouted("decision_router", last.in)
    /\ BrokerOk
    /\ _should_escalate_immediately(last.in.sentiment, last.in.intent, last.in.context)

\* C24: when the immediate-escalation trigger fires, the Decision Router hands
\* the message to the escalation router and not to the Response Aggregator,
\* which can receive it only from the escalation router.
C24_EscalationRouterIsNext ==
    ImmediateEscalation =>
        /\ PublishesTo(last.ev, Subject("escalation_router")) # {}
        /\ PublishesTo(last.ev, Subject("response_aggregator")) = {}

\* the trigger fired and the message is on the Response Aggregator's queue,
\* the escalation router never having been handed it
C24_EscalationSkipped ==
    /\ ImmediateEscalation
    /\ PublishesTo(last.ev, Subject("escalation_router")) = {}
    /\ \E c \in broker : /\ c.subj = Subject("response_aggregator")
                         /\ c.msg.route.steps = <<"escalation_router", "response_aggregator">>
                         /\ c.msg.route.current_step = 1

\* the Escalation Router's runtime was handed a message that a failure path
\* published to it: the error record is in the stored bytes
HandedOverError ==
    /\ Ran /\ last.actor = "escalation_router"
    /\ ~last.in.malformed
    /\ last.in.error.present

\* C25: a message published to the error handler by a failure path passes the
\* route check of the Escalation Router's runtime and is classified; it is not
\* negatively-acknowledged as a misroute.
C25_ErrorHandlerAccepts ==
    HandedOverError => Processed(last.ev) /\ ~Misrouted("escalation_router", last.in)

\* the runtime's failure path left the message on the Escalation Router's queue
\* with the cursor on the stage that failed; the router rejected it and the copy
\* is still there
C25_RejectedAsMisroute ==
    /\ HandedOverError
    /\ last.in.error.type \in {"timeout", "processing_error"}
    /\ get_current_actor(last.in.route) = last.in.error.actor
    /\ last.in.error.actor # "escalation_router"
    /\ last.ev = Call(Start(last.in), "nak").ev
    /\ Copy(Subject("escalation_router"), last.in) \in broker

\* the Decision Router accepted a delivery and made its routing decision
DecisionHandled ==
    /\ Ran /\ last.actor = "decision_router"
    /\ Processed(last.ev)

\* C26: a delivery the Decision Router handles is acknowledged only with the
\* message published onward, exactly once, and a run with a reliable broker
\* publishes it to the stage that follows the cursor in the decided route.
C26_DecisionPublishesOnce ==
    DecisionHandled =>
        /\ Acked(last.ev) => Cardinality(StreamPublishesOf(last.ev)) = 1
        /\ BrokerOk => \E i \in StreamPublishesOf(last.ev) :
                           last.ev[i].subj = Subject(get_current_actor(last.ev[i].msg.route))

\* decision_router was the last step of the route and no rule added a step:
\* the delivery was acknowledged with nothing published and the message is in
\* no queue
C26_AckedWithoutPublish ==
    /\ DecisionHandled
    /\ BrokerOk
    /\ last.in.route.steps = COMPLAINT_ANALYSIS_STEPS
    /\ Acked(last.ev)
    /\ PublishesOf(last.ev) = {}
    /\ broker = {}

\* the steps ahead of the cursor the Decision Router received, in the route it
\* decided
AheadDecided == From(last.obj.route.steps, last.in.route.current_step + 1)

\* the Decision Router handled a message with an action intent on which the
\* immediate escalation does not fire
ActionDecided ==
    /\ DecisionHandled
    /\ _needs_action_execution(last.in.intent, last.in.context)
    /\ ~_should_escalate_immediately(last.in.sentiment, last.in.intent, last.in.context)

C28_ErrorDecidesAlone ==
    \A i \in {1, 2} :
        (ekind[i] # "none" /\ einput[i].error.present) =>
            ekind[i] = IF einput[i].retry_count < max_auto_retries
                       THEN "retry" ELSE "error_recovery"

\* classified: an errored message of a VIP customer with the retries used up,
\* and the same message with an escalation keyword, both error_recovery
C28_Witness ==
    /\ ekind = <<"error_recovery", "error_recovery">>
    /\ einput[1].error.present
    /\ einput[1].retry_count = max_auto_retries
    /\ einput[1].context.tier = "VIP"
    /\ ~einput[1].guardrail_check.passed
    /\ einput[2].customer_keyword # einput[1].customer_keyword

\* the first message carries no error and no handoff trigger, and a guardrail
\* check with passed = false
FailedGuardrailOnly(m) ==
    /\ ~m.error.present
    /\ ~HandoffTrigger(m)
    /\ m.guardrail_check.present /\ ~m.guardrail_check.passed

\* C29: such a message is classified fallback_response, and handling it
\* publishes it once, to the Response Aggregator and not to the next step of
\* its route, with a response set and fallback_used marked.
C29_FallbackToAggregator ==
    (ekind[1] # "none" /\ FailedGuardrailOnly(einput[1])) =>
        /\ ekind[1] = "fallback_response"
        /\ Ran =>
             /\ Cardinality(PublishesOf(last.ev)) = 1
             /\ \A i \in PublishesOf(last.ev) :
                   /\ last.ev[i].subj = Subject("response_aggregator")
                   /\ last.ev[i].subj # Subject(get_next_actor(last.in.route))
                   /\ last.ev[i].msg.response # None
                   /\ last.ev[i].msg.fallback_used
                   /\ last.ev[i].msg.route = last.in.route

\* a message with a failed guardrail check and nothing else was classified and
\* handled
C29_Witness ==
    /\ ekind[1] = "fallback_response"
    /\ FailedGuardrailOnly(einput[1])
    /\ Ran /\ last.in = einput[1]
    /\ last.in.response = None
    /\ last.obj.response = "fallback"

\* a run of the Escalation Router on a delivered message that it classified as
\* retry
RetryPass ==
    /\ last.actor = "escalation_router"
    /\ Processed(last.ev)
    /\ _determine_escalation_type(last.in) = "retry"

\* the copies in the Escalation Router's durable queue that it would classify
\* as retry
RetryQueued ==
    {c \in broker : /\ c.subj = Subject("escalation_router")
                    /\ ~c.msg.malformed
                    /\ _determine_escalation_type(c.msg) = "retry"}

\* C30: no stage publishes a copy whose retry_count is smaller than that of the
\* copy it received, and every retry pass of the Escalation Router republishes
\* the message with retry_count one higher and leaves no copy of it that would
\* be classified retry again with the retry_count it was received with, so that
\* a message is classified retry at most max_auto_retries times.
C30_RetryPassCountsUp ==
    /\ \A out \in PublishedOnward : out.retry_count >= last.in.retry_count
    /\ RetryPass =>
         /\ last.in.retry_count < max_auto_retries
         /\ PublishedOnward # {}
         /\ \A out \in PublishedOnward : out.retry_count = last.in.retry_count + 1
         /\ \A c \in RetryQueued : c.msg.retry_count > last.in.retry_count

\* a retry pass in which both publish calls raised: nothing was republished, the
\* delivery was negatively acknowledged and the stored copy is still queued with
\* the retry_count it had, to be classified retry again
C30_RetryPassRepeats ==
    /\ RetryPass
    /\ last.pub = {1, 2}
    /\ PublishedOnward = {}
    /\ ~Acked(last.ev)
    /\ Copy(Subject("escalation_router"), last.in) \in RetryQueued

\* a run of the Escalation Router on a delivery that passed its route check
EscalationHandled == last.actor = "escalation_router" /\ Processed(last.ev)

\* where the Escalation Router may send the delivered message: the failed stage
\* on retry, the next stage of the route, or the Response Aggregator
EscalationTargets(m) ==
    {Subject("response_aggregator")}
        \cup (IF _determine_escalation_type(m) = "retry" /\ _find_failed_step(m) # None
              THEN {Subject(_find_failed_step(m))} ELSE {})
        \cup (IF get_next_actor(m.route) # None
              THEN {Subject(get_next_actor(m.route))} ELSE {})

\* C31: a run of the Escalation Router that acknowledges the delivery has
\* published the message exactly once, to the failed stage, the next stage of
\* the route or the Response Aggregator; a run that does not acknowledge it
\* leaves the delivered copy queued: no handled message is dropped.
C31_EscalationPublishesOnce ==
    EscalationHandled =>
        /\ Acked(last.ev) =>
             /\ Cardinality(PublishesOf(last.ev)) = 1
             /\ \A i \in PublishesOf(last.ev) : last.ev[i].subj \in EscalationTargets(last.in)
        /\ ~Acked(last.ev) => Copy(Subject("escalation_router"), last.in) \in broker

\* the Escalation Router acknowledged a delivery without having published the
\* message, and no copy of it is queued anywhere
C31_Dropped ==
    /\ EscalationHandled
    /\ Acked(last.ev)
    /\ PublishesOf(last.ev) = {}
    /\ broker = {}

\* a run of the Escalation Router in which the handler chosen by the
\* classification raised: its publish, the first of the run, was refused
EscalationRaised == EscalationHandled /\ 1 \in last.pub

\* C32: when a step of the Escalation Router's handling raises, the run records
\* the error, sets the emergency response, marks emergency_fallback and
\* publishes the message once, to the Response Aggregator, and the delivery is
\* acknowledged without a second pass through the classification.
C32_EmergencyDelivered ==
    EscalationRaised =>
        /\ Cardinality(PublishesOf(last.ev)) = 1
        /\ \A i \in PublishesOf(last.ev) :
              /\ last.ev[i].subj = Subject("response_aggregator")
              /\ last.ev[i].msg.error =
                    [present |-> TRUE, type |-> "critical_escalation_error",
                     actor |-> "escalation_router"]
              /\ last.ev[i].msg.recovery_log = last.in.recovery_log + 1
              /\ last.ev[i].msg.response = "emergency"
              /\ last.ev[i].msg.emergency_fallback
        /\ Acked(last.ev)

\* the emergency publish raised as well: nothing reached the Response
\* Aggregator and the delivered copy is queued for the Escalation Router again
C32_EmergencyLost ==
    /\ EscalationRaised
    /\ PublishesOf(last.ev) = {}
    /\ Naked(last.ev)
    /\ Copy(Subject("escalation_router"), last.in) \in broker

\* a run of the Response Aggregator on a delivery that passed its route check
AggregatorAccepted == last.actor = "response_aggregator" /\ Processed(last.ev)

\* the delivery envelopes published in the run: the publishes outside the
\* stream other than the error notifications
EnvelopesOf(ev) ==
    {i \in PublishesOf(ev) : Len(ev[i].subj) # 3 /\ ev[i].subj # error_delivery_subject}

\* C33: for a message the Response Aggregator accepts, with a broker whose
\* calls succeed, exactly one delivery envelope is published and it carries the
\* message_id of that message, never a placeholder or a foreign id.
C33_OneEnvelopeOwnId ==
    (AggregatorAccepted /\ BrokerOk) =>
        /\ Cardinality(EnvelopesOf(last.ev)) = 1
        /\ \A i \in EnvelopesOf(last.ev) : last.ev[i].mid = last.in.message_id

\* the run published two envelopes, the first of them under the placeholder id
C33_PlaceholderPublished ==
    /\ AggregatorAccepted /\ BrokerOk
    /\ Cardinality(EnvelopesOf(last.ev)) = 2
    /\ \E i, j \in EnvelopesOf(last.ev) :
          /\ i < j
          /\ last.ev[i].mid = "unknown" /\ last.ev[i].subj = default_response_subject
          /\ last.ev[j].mid = last.in.message_id

\* the Response Aggregator's publish of the message's own envelope raised: the
\* run published no envelope under the message's id
DeliveryFailed ==
    /\ AggregatorAccepted
    /\ \A i \in EnvelopesOf(last.ev) : last.ev[i].mid # last.in.message_id

\* the notifications of the run that name the message
NotificationsOf(ev, mid) == {i \in PublishesTo(ev, error_delivery_subject) : ev[i].mid = mid}

\* the publish of the notification, the broker call after the failed one, was
\* refused as well
NotificationRefused == DeliveryFailed /\ last.pub = {2, 3}

\* C34 as stated: when the publish of the delivery envelope fails, a
\* notification is published to the error-notification subject, no exception
\* reaches the runtime and the delivery is acknowledged, neither negatively
\* acknowledged nor sent to the error handler.
C34_FailureNotified ==
    DeliveryFailed =>
        /\ NotificationsOf(last.ev, last.in.message_id) # {}
        /\ Acked(last.ev) /\ ~Naked(last.ev)
        /\ StreamPublishesOf(last.ev) = {}

\* C34: when the publish of the delivery envelope fails, the notification is
\* published to the error-notification subject unless the broker refuses that
\* publish too; in both cases no exception reaches the runtime: the delivery
\* is acknowledged, not negatively acknowledged, nothing is sent to the error
\* handler and the retry count is not touched.
C34_FailureSwallowed ==
    DeliveryFailed =>
        /\ ~NotificationRefused =>
              /\ Cardinality(NotificationsOf(last.ev, last.in.message_id)) = 1
              /\ \A i \in NotificationsOf(last.ev, last.in.message_id) :
                    last.ev[i].msg.error.type = "response_delivery_error"
        /\ NotificationRefused => NotificationsOf(last.ev, last.in.message_id) = {}
        /\ Acked(last.ev) /\ ~Naked(last.ev)
        /\ StreamPublishesOf(last.ev) = {}
        /\ last.obj.retry_count = last.in.retry_count

\* the delivery failed, its notification was published and the delivery was
\* acknowledged
C34_Witness ==
    /\ DeliveryFailed
    /\ last.pub = {2}
    /\ NotificationsOf(last.ev, last.in.message_id) # {}
    /\ Acked(last.ev)
    /\ broker = {}

\* in every run the acknowledgement, if any, is the last call: every publish of
\* the run completed before it
AckAfterPublishes ==
    \A i \in 1..Len(last.ev) : last.ev[i].op = "ack" => i = Len(last.ev)

\* a processor stage's process() succeeded and the onward publish of its
\* route-advance, the first publish of the run, raised
OnwardPublishFailed ==
    /\ last.actor \in ProcessorActors
    /\ Processed(last.ev)
    /\ last.outcome = "ok"
    /\ advance_result(last.in.route)
    /\ 1 \in last.pub

C35_AckedAfterFailedPublish ==
    /\ OnwardPublishFailed
    /\ last.in.retry_count >= max_retries
    /\ Acked(last.ev)

\* the reply that arrives in this step, if one does
ArrivingReply(mid) ==
    /\ Len(arrived') = Len(arrived) + 1
    /\ arrived'[Len(arrived')].mid = mid

\* C36: in the synchronous path the handle of a message_id is in the pending
\* map when the seed message is published and stays there while the request
\* waits unanswered, so a reply that arrives for a message_id finds its handle
\* registered unless the request was already fulfilled, timed out or failed.
C36_RegisteredBeforePublish ==
    /\ [](\A r \in Requests :
             /\ gpc[r] = "registered" => r \in pending_requests
             /\ (gpc[r] = "waiting" /\ future[r].state = "pending") => r \in pending_requests)
    /\ [][\A r \in Requests :
             ArrivingReply(r) =>
                \/ r \in pending_requests
                \/ future[r].state # "pending"
                \/ gpc[r] = "ended"]_vars

\* the seed of id1 was published with its handle registered, its reply arrived
\* and fulfilled the handle, while id2 is registered and not yet published
C36_Witness ==
    /\ gpc["id1"] = "waiting" /\ future["id1"].state = "done"
    /\ Len(arrived) = 1 /\ arrived[1].mid = "id1"
    /\ "id1" \notin pending_requests
    /\ gpc["id2"] = "registered" /\ "id2" \in pending_requests

\* C37: a reply whose message_id has no pending handle changes neither the
\* pending map nor any handle nor any request; a reply leaves the handles and
\* the map entries of the other message_ids as they were; and a handle that is
\* no longer pending (fulfilled or cancelled by the timeout) is never given a
\* result again: each handle is fulfilled at most once.
C37_UnknownReplyChangesNothing ==
    [][/\ \A mid \in ReplyIds :
             ArrivingReply(mid) =>
                /\ mid \notin pending_requests =>
                      /\ pending_requests' = pending_requests
                      /\ future' = future
                      /\ gpc' = gpc /\ gresult' = gresult
                /\ \A k \in Requests \ {mid} :
                      /\ future'[k] = future[k]
                      /\ (k \in pending_requests') = (k \in pending_requests)
       /\ \A k \in Requests :
             future[k].state \in {"done", "cancelled"} => future'[k] = future[k]]_vars

\* id1 was fulfilled by its first reply, a duplicate reply with another body
\* arrived afterwards, and the handle of id2 is still pending
C37_Witness ==
    /\ Len(arrived) = 2
    /\ arrived[1] = [mid |-> "id1", body |-> "for_id1"]
    /\ arrived[2] = [mid |-> "id1", body |-> "for_id2"]
    /\ future["id1"] = [state |-> "done", value |-> "for_id1"]
    /\ "id2" \in pending_requests /\ future["id2"].state = "pending"

\* the envelope _handle_response_message handles in this step, if it handles one
HandlingReply(e) == e \notin ws_seen /\ e \in ws_seen'

C39_PendingConnectionsActive ==
    \A p \in ws_pending : p.conn \in active_connections

\* the server was shut down, c1 sent a chat message afterwards and then closed
\* its socket: the entry of that message is still in the pending map, mapped to
\* a connection that is not active
C39_StaleEntry ==
    /\ wnc = "closed"
    /\ wloop["c1"] = "closed"
    /\ "c1" \notin active_connections
    /\ [mid |-> "m1", conn |-> "c1"] \in ws_pending

\* the chat message made in this step, when its seed could not be published: no
\* message_sent frame was sent for it
FailedChat(mid) ==
    /\ mid \notin ws_made /\ mid \in ws_made'
    /\ \A c \in Connections : Frame(c, "message_sent", mid) \notin pushed'

\* C40: when the publish of the seed message fails in the WebSocket chat
\* handler, the client has been sent an error frame and the pending map holds
\* no entry for that message_id when the handler returns.
C40_FailedChatLeavesNoEntry ==
    [][\A mid \in WsIds :
         FailedChat(mid) =>
            /\ \E c \in Connections : wloop[c] = "open" /\ Frame(c, "error", None) \in pushed'
            /\ \A p \in ws_pending' : p.mid # mid]_vars

\* the seed of m1 was not published, c1 was sent the error frame, and the entry
\* of m1 is still in the pending map of the running manager
C40_EntryLeftBehind ==
    /\ wnc = "open"
    /\ "m1" \in ws_made
    /\ Frame("c1", "message_sent", "m1") \notin pushed
    /\ Frame("c1", "error", None) \in pushed
    /\ [mid |-> "m1", conn |-> "c1"] \in ws_pending
====
